---- MODULE Spec2Model ----
(***************************************************************************)
(* tsbs: the data generator's driver (cmd/tsbs_generate_data/main.go) and  *)
(* the TimescaleDB high-cpu query generator                                *)
(* (cmd/bulk_query_gen/timescaledb_devops_high_cpu.go).                    *)
(*                                                                         *)
(* One generator process is modelled statement by statement: init() with   *)
(* postFlagParse, main with its validations, deferred calls and the        *)
(* interrupt listener of startMemoryProfile, getSerializer and the loop of *)
(* runSimulator.  The packages the driver imports (the simulators of       *)
(* devops, the serializers of serialize) and the query pool are not part   *)
(* of the two source files; they are modelled from their contracts.        *)
(***************************************************************************)
EXTENDS Integers, Sequences, FiniteSets, TLC

\* ------------------------------------------------------------------ bounds
\* Largest value of -interleaved-generation-groups and of the group id.
MaxGroups == 2
\* Largest number of sampling ticks between timestamp-start and timestamp-end.
MaxTicks == 3
\* Largest value of the -seed flag.
MaxSeed == 5
\* Largest reading of time.Now().Nanosecond() (really 0..999999999).
MaxNano == 1
\* Capacity of the bufio.Writer in output tokens (really inputBufSize bytes).
BufCap == 3

\* --------------------------------------------------------------- constants
formatCassandra == "cassandra"
formatInflux == "influx"
formatMongo == "mongo"
formatTimescaleDB == "timescaledb"

useCaseCPUOnly == "cpu-only"
useCaseCPUSingle == "cpu-single"
useCaseDevops == "devops"

errTotalGroupsZero == "incorrect interleaved groups configuration: total groups = 0"
errInvalidGroupsFmt == "incorrect interleaved groups configuration: id >= total groups"

formatChoices == <<formatCassandra, formatInflux, formatMongo, formatTimescaleDB>>

\* Values the -format and -use-case flags are drawn from: every choice the
\* code knows and one it does not.
FormatInputs == {formatCassandra, formatInflux, formatMongo, formatTimescaleDB, "bogus"}
UseCaseInputs == {useCaseCPUOnly, useCaseCPUSingle, useCaseDevops, "bogus"}

Range(s) == {s[i] : i \in 1..Len(s)}

\* ------------------------------------------------------------ pure helpers
\* Mutant: the group id equal to the number of groups is let through.
validateGroupsOffByOne(gid, total) ==
    IF total = 0 THEN [ok |-> FALSE, err |-> errTotalGroupsZero]
    ELSE IF gid > total THEN [ok |-> FALSE, err |-> errInvalidGroupsFmt]
    ELSE [ok |-> TRUE, err |-> ""]
\* validateGroups: the (bool, error) pair; err = "" stands for nil.
validateGroups(gid, total) ==
    IF total = 0 THEN [ok |-> FALSE, err |-> errTotalGroupsZero]
    ELSE IF gid >= total THEN [ok |-> FALSE, err |-> errInvalidGroupsFmt]
    ELSE [ok |-> TRUE, err |-> ""]

\* validateFormat: linear search of formatChoices.
validateFormat(f) == \E i \in 1..Len(formatChoices) : formatChoices[i] = f

\* getConfig's switch: the use cases that yield a SimulatorConfig.
KnownUseCase(u) == u \in {useCaseDevops, useCaseCPUOnly, useCaseCPUSingle}

\* Mutant: the clock is used whatever the flag.
EffectiveSeedFromClock(flagValue, nano) == nano
\* postFlagParse's seed rule: flag value 0 means the clock's nanoseconds.
EffectiveSeed(flagValue, nano) == IF flagValue = 0 THEN nano ELSE flagValue

\* Mutant: every record is taken to be this group's.
OwnedAlways(curr, gid) == TRUE
\* Mutant: the counter advances without wrapping round.
AdvanceGroupNoWrap(curr, total) == curr + 1
\* Mutant: the counter never advances.
AdvanceGroupStuck(curr, total) == curr
\* The round-robin test and step of runSimulator.
Owned(curr, gid) == curr = gid
AdvanceGroup(curr, total) == (curr + 1) % total

\* -------------------------------------------------------------- the Point
\* serialize.NewPoint(): no measurement name, no tags, no fields, no timestamp.
NewPoint == [name |-> "", tags |-> <<>>, fields |-> <<>>, ts |-> -1]
\* point.Reset()
ResetPoint(p) == NewPoint

\* ---------------------------------------------------------- the Simulator
\* A simulator is (seed, use case, ticks) and the number of Next calls made.
Bit(n, i) == (n \div (2 ^ i)) % 2
\* Finished(): simulated time has passed the end.
SimFinished(pos, ticks) == pos >= ticks
\* Whether the tick-th Next call produces a record: a function of the seed
\* and the call count alone.
SimProduces(sd, tick) == Bit(sd, tick) = 0
\* The Point the tick-th Next call fills in.
SimPoint(sd, uc, tick) ==
    [name |-> "cpu", tags |-> <<uc>>, fields |-> <<(3 * sd + tick) % 7>>, ts |-> tick]
\* What a Next call that produces no record may leave in the buffer.
SimResidue(sd, uc, tick) ==
    {NewPoint, [name |-> "cpu", tags |-> <<uc>>, fields |-> <<>>, ts |-> tick]}
\* Fields(): measurement name -> field names.
SimFields(uc) ==
    IF uc = useCaseDevops
    THEN [m \in {"cpu", "disk", "diskio", "mem"} |->
            IF m = "cpu" THEN <<"usage_user", "usage_system">>
            ELSE IF m = "mem" THEN <<"total", "free">>
            ELSE <<"reads">>]
    ELSE [m \in {"cpu"} |-> <<"usage_user", "usage_system">>]
\* devops.MachineTagKeys
MachineTagKeys == <<"hostname", "region", "datacenter">>

\* ----------------------------------------------------------- sort.Strings
\* The code points of the measurement names, for the byte-wise order of
\* Go's string comparison.
CodePoints(s) ==
    CASE s = "cpu" -> <<99, 112, 117>>
      [] s = "disk" -> <<100, 105, 115, 107>>
      [] s = "diskio" -> <<100, 105, 115, 107, 105, 111>>
      [] s = "mem" -> <<109, 101, 109>>
      [] OTHER -> <<>>

RECURSIVE SeqLess(_, _)
SeqLess(a, b) ==
    IF b = <<>> THEN FALSE
    ELSE IF a = <<>> THEN TRUE
    ELSE IF Head(a) # Head(b) THEN Head(a) < Head(b)
    ELSE SeqLess(Tail(a), Tail(b))

StringLess(a, b) == SeqLess(CodePoints(a), CodePoints(b))

RECURSIVE InsertSorted(_, _)
InsertSorted(x, s) ==
    IF s = <<>> THEN <<x>>
    ELSE IF StringLess(x, Head(s)) THEN <<x>> \o s
    ELSE <<Head(s)>> \o InsertSorted(x, Tail(s))

\* Mutant: the keys are left in the order the map gave them.
SortStringsAsGiven(s) == s
RECURSIVE SortStrings(_)
SortStrings(s) == IF s = <<>> THEN <<>> ELSE InsertSorted(Head(s), SortStrings(Tail(s)))

\* Every order in which ranging over a map's keys may visit them.
Orders(S) == {s \in [1..Cardinality(S) -> S] : Range(s) = S}

\* ------------------------------------------------------------ output sink
\* One unit written to the sink: a piece of header text or an encoded record.
Text(s) == [kind |-> "text", s |-> s, p |-> NewPoint]
\* Serialize's encoding of one Point in one format.
Encode(f, p) == [kind |-> "record", s |-> f, p |-> p]

RECURSIVE Flatten(_)
Flatten(ss) == IF ss = <<>> THEN <<>> ELSE Head(ss) \o Flatten(Tail(ss))

\* The tag line of the TimescaleDB header.
TagLine ==
    <<Text("tags")>>
    \o Flatten([i \in 1..Len(MachineTagKeys) |-> <<Text(","), Text(MachineTagKeys[i])>>])
    \o <<Text("\n")>>
\* One measurement's line.
MeasurementLine(fields, m) ==
    <<Text(m)>>
    \o Flatten([i \in 1..Len(fields[m]) |-> <<Text(","), Text(fields[m][i])>>])
    \o <<Text("\n")>>
\* getSerializer's header for the keys in map order `order`.
Preamble(fields, order) ==
    LET keys == SortStrings(order)
    IN TagLine
       \o Flatten([i \in 1..Len(keys) |-> MeasurementLine(fields, keys[i])])
       \o <<Text("\n")>>

\* bufio.Writer: write the tokens one by one; a write that finds the buffer
\* full flushes it to the underlying stream first.
RECURSIVE BufWrite(_, _)
BufWrite(w, toks) ==
    IF toks = <<>> THEN w
    ELSE IF Len(w.buf) >= BufCap
         THEN BufWrite([buf |-> <<Head(toks)>>, sink |-> w.sink \o w.buf], Tail(toks))
         ELSE BufWrite([buf |-> Append(w.buf, Head(toks)), sink |-> w.sink], Tail(toks))
\* out.Flush()
BufFlush(w) == [buf |-> <<>>, sink |-> w.sink \o w.buf]


\* ------------------------------------------------------- query generation
\* Largest number of generators constructed and of Query objects created.
NumGens == 2
MaxQueries == 2
\* The host counts given to NewTimescaleDBDevopsHighCPU and the scale
\* variables given to Dispatch.
HostChoices == {1, 8}
ScaleVars == {10, 100}
\* No Dispatch call yet.
NoCall == [gen |-> 0, scaleVar |-> 0, ret |-> 0]
\* A Query nothing has filled in yet.
EmptyQuery == [scaleVar |-> 0, hosts |-> 0]
\* HighCPUForHosts(q, scaleVar, hosts): fills the Query in place.
HighCPUForHosts(q, scaleVar, hosts) == [scaleVar |-> scaleVar, hosts |-> hosts]

\* ------------------------------------------------------------------- state
VARIABLES
    entry,       \* how the code is entered: "main" (the program) or "runSimulator" (a direct call)
    fatalHook,   \* the package variable fatal: "Fatalf" (log.Fatalf) or "returns" (a replaced hook)
    flags,       \* the parsed flags: format, useCase, seed, groupID, totalGroups, profileFile, ticks
    pc,          \* the main goroutine's position
    exit,        \* "running", or how the process ended
    seed,        \* the package variable seed
    vg,          \* the result of main's validateGroups call
    serializer,  \* the PointSerializer in use: "unset", "nil" or a format
    simPos,      \* the simulator's state: the number of Next calls made
    point,       \* runSimulator's Point buffer
    currGroup,   \* runSimulator's round-robin counter
    out,         \* the bufio.Writer: [buf, sink]; sink is what reached standard output
    serialized,  \* the Points passed to Serialize, in call order
    serErr,      \* whether a Serialize call returned an error
    fatalLog,    \* the messages passed to fatal
    lpc,         \* the interrupt listener goroutine: "off", "wait", "caught", "wrote", "stopped"
    prof,        \* the profile file: who called stop, who wrote it, who closed it
    runs,        \* the finished runs of a campaign of runs, in launch order
    campGroups,  \* the number of groups of the campaign
    gens,        \* the TimescaleDBDevopsHighCPU generators constructed: id -> [hosts]
    pool,        \* the Query objects lying in the pool
    allocated,   \* the number of Query objects created so far
    query,       \* the contents of each Query object
    holder,      \* the generator whose Dispatch handed the object out, 0 when not handed out
    owner,       \* the first generator whose Dispatch acquired the object, 0 when none did
    lastCall     \* the latest Dispatch call: its generator, its scaleVar, the object returned

procVars == <<pc, exit, seed, vg, serializer, simPos, point, currGroup, out,
              serialized, serErr, fatalLog, lpc, prof>>
qvars == <<gens, pool, allocated, query, holder, owner, lastCall>>
vars == <<entry, fatalHook, flags, procVars, runs, campGroups, qvars>>

FlagSets ==
    [format : FormatInputs, useCase : UseCaseInputs, seed : 0..MaxSeed,
     groupID : 0..MaxGroups, totalGroups : 0..MaxGroups,
     profileFile : BOOLEAN, ticks : 0..MaxTicks]

\* A process before init() has run.
FreshProcess(sd, ser) ==
    /\ exit = "running"
    /\ seed = sd
    /\ vg = [ok |-> FALSE, err |-> "not called"]
    /\ serializer = ser
    /\ simPos = 0
    /\ point = NewPoint
    /\ currGroup = 0
    /\ out = [buf |-> <<>>, sink |-> <<>>]
    /\ serialized = <<>>
    /\ serErr = FALSE
    /\ fatalLog = <<>>
    /\ lpc = "off"
    /\ prof = [stops |-> <<>>, writes |-> <<>>, closes |-> <<>>]

\* The program started with any flags; fatal is log.Fatalf (line 57).
InitMain ==
    /\ entry = "main"
    /\ fatalHook = "Fatalf"
    /\ flags \in FlagSets
    /\ pc = "init"
    /\ FreshProcess(0, "unset")

\* runSimulator called directly, as a test does: any simulator, a serializer
\* of a known format, any group arguments, fatal possibly replaced.
InitCall ==
    /\ entry = "runSimulator"
    /\ fatalHook \in {"Fatalf", "returns"}
    /\ flags \in {f \in FlagSets : /\ validateFormat(f.format)
                                   /\ f.useCase = useCaseCPUOnly
                                   /\ ~f.profileFile}
    /\ pc = "rs_entry"
    /\ FreshProcess(flags.seed, flags.format)

\* No query generator has been constructed.
NoQueries ==
    /\ gens = <<>>
    /\ pool = {}
    /\ allocated = 0
    /\ query = [q \in 1..MaxQueries |-> EmptyQuery]
    /\ holder = [q \in 1..MaxQueries |-> 0]
    /\ owner = [q \in 1..MaxQueries |-> 0]
    /\ lastCall = NoCall

Init ==
    /\ InitMain \/ InitCall
    /\ runs = <<>>
    /\ campGroups = 0
    /\ NoQueries

Running == exit = "running"

\* Mutant: fatal logs the message and returns (log.Printf for log.Fatalf).
FatalLogsOnly(msg, next) ==
    /\ fatalLog' = Append(fatalLog, msg)
    /\ exit' = exit
    /\ pc' = next

\* fatal(msg) at the current statement: log.Fatalf ends the process with
\* status 1; a replaced hook returns and the code goes on at `next`.
Fatal(msg, next) ==
    /\ fatalLog' = Append(fatalLog, msg)
    /\ IF fatalHook = "Fatalf"
       THEN exit' = "fatal" /\ pc' = pc
       ELSE exit' = exit /\ pc' = next

\* init(): flag.Parse and postFlagParse.  The two timestamps are taken to
\* parse; the range they span is flags.ticks sampling intervals long.
PostFlagParse ==
    /\ Running /\ pc = "init"
    /\ \E nano \in 0..MaxNano : seed' = EffectiveSeed(flags.seed, nano)
    /\ pc' = "main"
    /\ UNCHANGED <<entry, fatalHook, flags, exit, vg, serializer, simPos, point, currGroup,
                   out, serialized, serErr, fatalLog, lpc, prof, runs, campGroups, qvars>>

\* main, lines 165-167.
MainValidateGroups ==
    /\ Running /\ pc = "main"
    /\ vg' = validateGroups(flags.groupID, flags.totalGroups)
    /\ IF ~vg'.ok
       THEN Fatal(vg'.err, "validateFormat")
       ELSE pc' = "validateFormat" /\ UNCHANGED <<exit, fatalLog>>
    /\ UNCHANGED <<entry, fatalHook, flags, seed, serializer, simPos, point, currGroup,
                   out, serialized, serErr, lpc, prof, runs, campGroups, qvars>>

\* main, lines 168-170.
MainValidateFormat ==
    /\ Running /\ pc = "validateFormat"
    /\ IF ~validateFormat(flags.format)
       THEN Fatal("invalid format specifier", "setup")
       ELSE pc' = "setup" /\ UNCHANGED <<exit, fatalLog>>
    /\ UNCHANGED <<entry, fatalHook, flags, seed, vg, serializer, simPos, point, currGroup,
                   out, serialized, serErr, lpc, prof, runs, campGroups, qvars>>

\* main, lines 172-183: startMemoryProfile when a profile file is named (the
\* file is created and the listener goroutine started; os.Create may fail,
\* which log.Fatal ends), rand.Seed, the buffered writer, the deferred Flush.
MainSetup ==
    /\ Running /\ pc = "setup"
    /\ IF flags.profileFile
       THEN \E created \in BOOLEAN :
              IF created
              THEN lpc' = "wait" /\ pc' = "getConfig" /\ exit' = exit
              ELSE lpc' = lpc /\ pc' = pc /\ exit' = "fatal"
       ELSE lpc' = lpc /\ pc' = "getConfig" /\ exit' = exit
    /\ out' = [buf |-> <<>>, sink |-> <<>>]
    /\ UNCHANGED <<entry, fatalHook, flags, seed, vg, serializer, simPos, point, currGroup,
                   serialized, serErr, fatalLog, prof, runs, campGroups, qvars>>

\* main, lines 185-186: getConfig and cfg.ToSimulator.  When a replaced fatal
\* returns, getConfig returns nil and ToSimulator on it panics.
MainGetConfig ==
    /\ Running /\ pc = "getConfig"
    /\ IF KnownUseCase(flags.useCase)
       THEN /\ simPos' = 0
            /\ pc' = "getSerializer"
            /\ UNCHANGED <<exit, fatalLog>>
       ELSE /\ fatalLog' = Append(fatalLog, "unknown use case")
            /\ exit' = IF fatalHook = "Fatalf" THEN "fatal" ELSE "panic"
            /\ UNCHANGED <<pc, simPos>>
    /\ UNCHANGED <<entry, fatalHook, flags, seed, vg, serializer, point, currGroup,
                   out, serialized, serErr, lpc, prof, runs, campGroups, qvars>>

\* Mutant: the header is written whatever the format.
GetSerializerHeaderAlways ==
    /\ Running /\ pc = "getSerializer"
    /\ IF validateFormat(flags.format)
       THEN /\ \E order \in Orders(DOMAIN SimFields(flags.useCase)) :
                 out' = BufWrite(out, Preamble(SimFields(flags.useCase), order))
            /\ serializer' = flags.format
            /\ pc' = "rs_entry"
            /\ UNCHANGED <<exit, fatalLog>>
       ELSE /\ Fatal("unknown format", "rs_entry")
            /\ serializer' = "nil"
            /\ out' = out
    /\ UNCHANGED <<entry, fatalHook, flags, seed, vg, simPos, point, currGroup,
                   serialized, serErr, lpc, prof, runs, campGroups, qvars>>

\* getSerializer, called at line 187.
GetSerializer ==
    /\ Running /\ pc = "getSerializer"
    /\ IF flags.format \in {formatCassandra, formatInflux, formatMongo}
       THEN /\ serializer' = flags.format
            /\ pc' = "rs_entry"
            /\ UNCHANGED <<out, exit, fatalLog>>
       ELSE IF flags.format = formatTimescaleDB
       THEN /\ \E order \in Orders(DOMAIN SimFields(flags.useCase)) :
                 out' = BufWrite(out, Preamble(SimFields(flags.useCase), order))
            /\ serializer' = flags.format
            /\ pc' = "rs_entry"
            /\ UNCHANGED <<exit, fatalLog>>
       ELSE /\ Fatal("unknown format", "rs_entry")
            /\ serializer' = "nil"
            /\ out' = out
    /\ UNCHANGED <<entry, fatalHook, flags, seed, vg, simPos, point, currGroup,
                   serialized, serErr, lpc, prof, runs, campGroups, qvars>>


\* runSimulator returns to its caller: main then returns and runs its
\* deferred calls; a direct call is over.
RsReturn ==
    IF entry = "main"
    THEN pc' = "deferFlush" /\ exit' = exit
    ELSE pc' = pc /\ exit' = "call returned"

\* Mutant: the return of line 207 is missing, so a fatal that returns lets
\* the loop go on.
SerializeFailedNoReturn ==
    /\ fatalLog' = Append(fatalLog, "serialize")
    /\ IF fatalHook = "Fatalf"
       THEN exit' = "fatal" /\ pc' = pc
       ELSE exit' = exit /\ pc' = "reset"

\* Lines 205-208: Serialize returned an error: fatal, then return.
SerializeFailed ==
    /\ fatalLog' = Append(fatalLog, "serialize")
    /\ IF fatalHook = "Fatalf"
       THEN exit' = "fatal" /\ pc' = pc
       ELSE RsReturn

\* runSimulator, lines 193-194.
RsEntry ==
    /\ Running /\ pc = "rs_entry"
    /\ currGroup' = 0
    /\ point' = NewPoint
    /\ pc' = "loop"
    /\ UNCHANGED <<entry, fatalHook, flags, exit, seed, vg, serializer, simPos,
                   out, serialized, serErr, fatalLog, lpc, prof, runs, campGroups, qvars>>

\* Mutant: the loop goes round once more after Finished() has become true.
RsLoopOnceMore ==
    /\ Running /\ pc = "loop"
    /\ IF simPos > flags.ticks
       THEN RsReturn
       ELSE pc' = "next" /\ exit' = exit
    /\ UNCHANGED <<entry, fatalHook, flags, seed, vg, serializer, simPos, point, currGroup,
                   out, serialized, serErr, fatalLog, lpc, prof, runs, campGroups, qvars>>

\* Line 195: the loop condition.
RsLoop ==
    /\ Running /\ pc = "loop"
    /\ IF SimFinished(simPos, flags.ticks)
       THEN RsReturn
       ELSE pc' = "next" /\ exit' = exit
    /\ UNCHANGED <<entry, fatalHook, flags, seed, vg, serializer, simPos, point, currGroup,
                   out, serialized, serErr, fatalLog, lpc, prof, runs, campGroups, qvars>>

\* Line 196: write := sim.Next(point).
RsNext ==
    /\ Running /\ pc = "next"
    /\ simPos' = simPos + 1
    /\ IF SimProduces(seed, simPos)
       THEN /\ point' = SimPoint(seed, flags.useCase, simPos)
            /\ pc' = "emit"
       ELSE /\ point' \in SimResidue(seed, flags.useCase, simPos)
            /\ pc' = "skip"
    /\ UNCHANGED <<entry, fatalHook, flags, exit, seed, vg, serializer, currGroup,
                   out, serialized, serErr, fatalLog, lpc, prof, runs, campGroups, qvars>>

\* Mutant: the skipped iteration leaves the buffer as Next left it.
RsSkipNoReset ==
    /\ Running /\ pc = "skip"
    /\ pc' = "loop"
    /\ UNCHANGED <<entry, fatalHook, flags, exit, seed, vg, serializer, simPos, point,
                   currGroup, out, serialized, serErr, fatalLog, lpc, prof, runs, campGroups, qvars>>

\* Mutant: the skipped iteration advances the round-robin counter too.
RsSkipAdvances ==
    /\ Running /\ pc = "skip"
    /\ point' = ResetPoint(point)
    /\ currGroup' = IF flags.totalGroups = 0 THEN currGroup
                    ELSE AdvanceGroup(currGroup, flags.totalGroups)
    /\ pc' = "loop"
    /\ UNCHANGED <<entry, fatalHook, flags, exit, seed, vg, serializer, simPos,
                   out, serialized, serErr, fatalLog, lpc, prof, runs, campGroups, qvars>>

\* Lines 197-200: no record was produced.
RsSkip ==
    /\ Running /\ pc = "skip"
    /\ point' = ResetPoint(point)
    /\ pc' = "loop"
    /\ UNCHANGED <<entry, fatalHook, flags, exit, seed, vg, serializer, simPos, currGroup,
                   out, serialized, serErr, fatalLog, lpc, prof, runs, campGroups, qvars>>

\* Lines 203-209: the record is serialized if it is this group's turn.
\* Serialize writes one encoded record, or fails on the sink.
RsEmit ==
    /\ Running /\ pc = "emit"
    /\ IF Owned(currGroup, flags.groupID)
       THEN /\ serialized' = Append(serialized, point)
            /\ \E failed \in BOOLEAN :
                 IF failed
                 THEN /\ serErr' = TRUE
                      /\ out' = out
                      /\ SerializeFailed
                 ELSE /\ out' = BufWrite(out, <<Encode(serializer, point)>>)
                      /\ pc' = "reset"
                      /\ UNCHANGED <<serErr, fatalLog, exit>>
       ELSE /\ pc' = "reset"
            /\ UNCHANGED <<serialized, serErr, out, fatalLog, exit>>
    /\ UNCHANGED <<entry, fatalHook, flags, seed, vg, serializer, simPos, point, currGroup,
                   lpc, prof, runs, campGroups, qvars>>

\* Lines 210-212: reset the buffer and advance the counter; the remainder by
\* a zero totalGroups is a run-time panic.
RsReset ==
    /\ Running /\ pc = "reset"
    /\ point' = ResetPoint(point)
    /\ IF flags.totalGroups = 0
       THEN exit' = "panic" /\ UNCHANGED <<pc, currGroup>>
       ELSE /\ currGroup' = AdvanceGroup(currGroup, flags.totalGroups)
            /\ pc' = "loop"
            /\ exit' = exit
    /\ UNCHANGED <<entry, fatalHook, flags, seed, vg, serializer, simPos,
                   out, serialized, serErr, fatalLog, lpc, prof, runs, campGroups, qvars>>

\* Mutant: main returns without flushing the writer.
MainDeferNoFlush ==
    /\ Running /\ pc = "deferFlush"
    /\ IF lpc # "off"
       THEN pc' = "deferStop" /\ exit' = exit
       ELSE pc' = pc /\ exit' = "returned"
    /\ UNCHANGED <<entry, fatalHook, flags, seed, vg, serializer, simPos, point, currGroup,
                   out, serialized, serErr, fatalLog, lpc, prof, runs, campGroups, qvars>>

\* The deferred function of lines 178-183, run when main returns: Flush, and
\* log.Fatal if it fails.
MainDeferFlush ==
    /\ Running /\ pc = "deferFlush"
    /\ \E failed \in BOOLEAN :
         IF failed
         THEN out' = out /\ exit' = "fatal" /\ pc' = pc
         ELSE /\ out' = BufFlush(out)
              /\ IF lpc # "off"
                 THEN pc' = "deferStop" /\ exit' = exit
                 ELSE pc' = pc /\ exit' = "returned"
    /\ UNCHANGED <<entry, fatalHook, flags, seed, vg, serializer, simPos, point, currGroup,
                   serialized, serErr, fatalLog, lpc, prof, runs, campGroups, qvars>>

\* stop (lines 299-304) is two calls on the file f. The first, line 300-302:
\* pprof.WriteHeapProfile(f) by goroutine who; it fails on a closed file.
StopWrite(p, who) ==
    IF p.closes # <<>>
    THEN [p EXCEPT !.stops = Append(@, who)]
    ELSE [p EXCEPT !.stops = Append(@, who), !.writes = Append(@, who)]

\* The second, line 303: f.Close() by goroutine who, its error ignored.
StopClose(p, who) == [p EXCEPT !.closes = Append(@, who)]

\* The deferred stop of line 173, run last when main returns: the write, and
\* log.Fatal if it fails.
MainDeferStop ==
    /\ Running /\ pc = "deferStop"
    /\ prof' = StopWrite(prof, "main")
    /\ IF prof.closes # <<>>
       THEN exit' = "fatal" /\ pc' = pc
       ELSE exit' = exit /\ pc' = "deferClose"
    /\ UNCHANGED <<entry, fatalHook, flags, seed, vg, serializer, simPos, point, currGroup,
                   out, serialized, serErr, fatalLog, lpc, runs, campGroups, qvars>>

\* The close of the deferred stop, after which main has returned.
MainDeferClose ==
    /\ Running /\ pc = "deferClose"
    /\ prof' = StopClose(prof, "main")
    /\ exit' = "returned"
    /\ UNCHANGED <<entry, fatalHook, flags, pc, seed, vg, serializer, simPos, point,
                   currGroup, out, serialized, serErr, fatalLog, lpc, runs, campGroups, qvars>>

\* The listener goroutine, lines 307-316: an interrupt arrives on c.
ListenerSignal ==
    /\ Running /\ lpc = "wait"
    /\ lpc' = "caught"
    /\ UNCHANGED <<entry, fatalHook, flags, pc, exit, seed, vg, serializer, simPos, point,
                   currGroup, out, serialized, serErr, fatalLog, prof, runs, campGroups, qvars>>

\* Line 313: stop(), its write.
ListenerStop ==
    /\ Running /\ lpc = "caught"
    /\ prof' = StopWrite(prof, "listener")
    /\ IF prof.closes # <<>>
       THEN exit' = "fatal" /\ lpc' = lpc
       ELSE exit' = exit /\ lpc' = "wrote"
    /\ UNCHANGED <<entry, fatalHook, flags, pc, seed, vg, serializer, simPos, point,
                   currGroup, out, serialized, serErr, fatalLog, runs, campGroups, qvars>>

\* Line 313: stop(), its close.
ListenerClose ==
    /\ Running /\ lpc = "wrote"
    /\ prof' = StopClose(prof, "listener")
    /\ lpc' = "stopped"
    /\ UNCHANGED <<entry, fatalHook, flags, pc, exit, seed, vg, serializer, simPos, point,
                   currGroup, out, serialized, serErr, fatalLog, runs, campGroups, qvars>>

\* Line 315: os.Exit(0).
ListenerExit ==
    /\ Running /\ lpc = "stopped"
    /\ exit' = "interrupt"
    /\ UNCHANGED <<entry, fatalHook, flags, pc, seed, vg, serializer, simPos, point,
                   currGroup, out, serialized, serErr, fatalLog, lpc, prof, runs, campGroups, qvars>>

\* The statements of the main goroutine up to the end of runSimulator.
Generate ==
    \/ PostFlagParse
    \/ MainValidateGroups
    \/ MainValidateFormat
    \/ MainSetup
    \/ MainGetConfig
    \/ GetSerializer
    \/ RsEntry
    \/ RsLoop
    \/ RsNext
    \/ RsSkip
    \/ RsEmit
    \/ RsReset
    \/ MainDeferFlush

Next ==
    \/ Generate
    \/ MainDeferStop
    \/ MainDeferClose
    \/ ListenerSignal
    \/ ListenerStop
    \/ ListenerClose
    \/ ListenerExit

Spec == Init /\ [][Next]_vars

\* The statements of runSimulator, lines 192-214.
RunSimulator == RsEntry \/ RsLoop \/ RsNext \/ RsSkip \/ RsEmit \/ RsReset

\* The same program with the main goroutine scheduled inside runSimulator:
\* while it has a next statement there it eventually executes it.
SpecLive == Init /\ [][Next]_vars /\ WF_vars(RunSimulator)


\* --------------------------------------------------- a campaign of runs
\* The program run several times with the same flags but the group ones, one
\* run after the other, each run's output kept: first the single-group run
\* (groups = 1, id = 0), then one run per group id of campGroups groups.
\* Processes share nothing, so the runs are taken in sequence.
RunRecord ==
    [groupID |-> flags.groupID, totalGroups |-> flags.totalGroups, seed |-> seed,
     exit |-> exit, stdout |-> out.sink, serialized |-> serialized]

InitGroups ==
    /\ entry = "main"
    /\ fatalHook = "Fatalf"
    /\ flags \in {f \in FlagSets : /\ validateFormat(f.format)
                                   /\ KnownUseCase(f.useCase)
                                   /\ f.groupID = 0 /\ f.totalGroups = 1
                                   /\ ~f.profileFile}
    /\ pc = "init"
    /\ FreshProcess(0, "unset")
    /\ runs = <<>>
    /\ campGroups \in 1..MaxGroups
    /\ NoQueries

\* A run has ended normally: keep its output and start the next run, if any.
Relaunch ==
    /\ exit = "returned"
    /\ Len(runs) < campGroups + 1
    /\ runs' = Append(runs, RunRecord)
    /\ IF Len(runs') < campGroups + 1
       THEN /\ flags' = [flags EXCEPT !.groupID = Len(runs') - 1,
                                      !.totalGroups = campGroups]
            /\ pc' = "init"
            /\ exit' = "running"
            /\ seed' = 0
            /\ vg' = [ok |-> FALSE, err |-> "not called"]
            /\ serializer' = "unset"
            /\ simPos' = 0
            /\ point' = NewPoint
            /\ currGroup' = 0
            /\ out' = [buf |-> <<>>, sink |-> <<>>]
            /\ serialized' = <<>>
            /\ serErr' = FALSE
            /\ fatalLog' = <<>>
            /\ UNCHANGED <<lpc, prof>>
       ELSE UNCHANGED <<flags, procVars>>
    /\ UNCHANGED <<entry, fatalHook, campGroups, qvars>>

NextGroups == Generate \/ Relaunch

SpecGroups == InitGroups /\ [][NextGroups]_vars

\* Every run of the campaign has ended.
CampaignDone == Len(runs) = campGroups + 1
\* The run of group g, and the single-group run.
GroupRun(g) == runs[g + 2]
SingleRun == runs[1]
\* All runs drew the same stream: the same effective seed.
SameStream == \A i \in 1..Len(runs) : runs[i].seed = runs[1].seed

\* The logical stream of a run: the Points of the ticks that produce one, in order.
RECURSIVE ProducedFrom(_, _, _, _)
ProducedFrom(sd, uc, tick, ticks) ==
    IF tick >= ticks THEN <<>>
    ELSE IF SimProduces(sd, tick)
         THEN <<SimPoint(sd, uc, tick)>> \o ProducedFrom(sd, uc, tick + 1, ticks)
         ELSE ProducedFrom(sd, uc, tick + 1, ticks)
Produced(sd) == ProducedFrom(sd, flags.useCase, 0, flags.ticks)

Count(x, s) == Cardinality({i \in 1..Len(s) : s[i] = x})
\* The elements of s at the (0-based) positions congruent to g modulo n.
EveryNth(s, g, n) ==
    LET idx == {i \in 1..Len(s) : (i - 1) % n = g}
        nth[k \in 0..Cardinality(idx)] ==
            IF k = 0 THEN <<>> ELSE Append(nth[k - 1], s[g + 1 + (k - 1) * n])
    IN nth[Cardinality(idx)]


\* The header text and the encoded records of an output stream.
HeaderOf(o) == SelectSeq(o, LAMBDA t : t.kind = "text")
RecordsOf(o) == SelectSeq(o, LAMBDA t : t.kind = "record")

\* C1: when the program has been run once per group id over the same stream,
\* the k-th produced record (counting from 0) was passed to Serialize exactly
\* once by the run of group k mod totalGroups and by no other run, and
\* nothing but produced records was passed to Serialize.
C1_ExactlyOncePartition ==
    (CampaignDone /\ SameStream) =>
        LET P == Produced(SingleRun.seed)
        IN /\ \A k \in 1..Len(P) : \A g \in 0..(campGroups - 1) :
                Count(P[k], GroupRun(g).serialized)
                    = IF g = (k - 1) % campGroups THEN 1 ELSE 0
           /\ \A g \in 0..(campGroups - 1) :
                Range(GroupRun(g).serialized) \subseteq Range(P)

\* Two groups have run over a stream with a skipped tick between two
\* produced records.
C1_Witness ==
    /\ CampaignDone /\ SameStream
    /\ campGroups = 2
    /\ Len(Produced(SingleRun.seed)) >= 2
    /\ \E t \in 1..(flags.ticks - 2) : ~SimProduces(SingleRun.seed, t)
    /\ Len(GroupRun(1).serialized) >= 1

\* C2 as stated: the groups' outputs concatenated in group order are the
\* single-group run's output.
C2_ConcatenationIsSingleOutput ==
    (CampaignDone /\ campGroups > 1) =>
        Flatten([g \in 1..campGroups |-> GroupRun(g - 1).stdout]) = SingleRun.stdout

\* C2, amended: for runs over the same stream, every group's output is the
\* single-group run's header followed by the single-group run's records
\* number g, g + totalGroups, g + 2 totalGroups, ... in that order.
C2_GroupsInterleaveSingleOutput ==
    (CampaignDone /\ SameStream) =>
        \A g \in 0..(campGroups - 1) :
            /\ HeaderOf(GroupRun(g).stdout) = HeaderOf(SingleRun.stdout)
            /\ RecordsOf(GroupRun(g).stdout)
                   = EveryNth(RecordsOf(SingleRun.stdout), g, campGroups)
            /\ GroupRun(g).stdout
                   = HeaderOf(GroupRun(g).stdout) \o RecordsOf(GroupRun(g).stdout)

\* Two groups of a TimescaleDB run have each written a header and records.
C2_Witness ==
    /\ CampaignDone /\ SameStream
    /\ campGroups = 2
    /\ flags.format = formatTimescaleDB
    /\ Len(RecordsOf(SingleRun.stdout)) >= 3
    /\ Len(RecordsOf(GroupRun(1).stdout)) >= 1

\* C3 as stated: two runs with the same flags, one group, write the same
\* output, whatever the -seed flag.
C3_DeterministicForEverySeed ==
    (CampaignDone /\ campGroups = 1) => GroupRun(0).stdout = SingleRun.stdout

\* C3, amended: two runs with the same flags, one group and a -seed other
\* than 0 write the same output.
C3_DeterministicForNonzeroSeed ==
    (CampaignDone /\ campGroups = 1 /\ flags.seed # 0) =>
        GroupRun(0).stdout = SingleRun.stdout

\* Two runs of the devops use case in the TimescaleDB format with a nonzero
\* seed have written a header and records.
C3_Witness ==
    /\ CampaignDone /\ campGroups = 1 /\ flags.seed # 0
    /\ flags.format = formatTimescaleDB /\ flags.useCase = useCaseDevops
    /\ Len(RecordsOf(SingleRun.stdout)) >= 2


\* ------------------------------------------------------ one run: claims
GroupsCalled == vg.err # "not called"

\* C4: validateGroups returns (true, nil) exactly when totalGroups >= 1 and
\* groupID < totalGroups, and (false, an error) otherwise, the
\* total-groups-zero error whenever totalGroups = 0: of the call main made
\* and of every pair of arguments within the bounds.
C4_ValidateGroups ==
    /\ GroupsCalled =>
         /\ vg.ok <=> (flags.totalGroups >= 1 /\ flags.groupID < flags.totalGroups)
         /\ vg.ok => vg.err = ""
         /\ ~vg.ok => vg.err # ""
         /\ flags.totalGroups = 0 => vg.err = errTotalGroupsZero
    /\ \A g \in 0..(MaxGroups + 1) : \A t \in 0..(MaxGroups + 1) :
         LET r == validateGroups(g, t)
         IN /\ r.ok <=> (t >= 1 /\ g < t)
            /\ r.ok <=> (r.err = "")
            /\ (t = 0) => (r = [ok |-> FALSE, err |-> errTotalGroupsZero])
            /\ (t >= 1 /\ g = t - 1) => r.ok
            /\ (g >= t) => ~r.ok

\* main has validated the last group id of several groups, and passed it.
C4_Witness ==
    /\ GroupsCalled /\ vg.ok
    /\ flags.totalGroups = MaxGroups /\ flags.groupID = flags.totalGroups - 1
    /\ pc = "validateFormat"


\* Something was written to the output sink or handed to Serialize.
Wrote == out.buf # <<>> \/ out.sink # <<>> \/ serialized # <<>>
\* The four checks of the configuration.
ConfigValid ==
    /\ flags.totalGroups # 0
    /\ flags.groupID < flags.totalGroups
    /\ validateFormat(flags.format)
    /\ KnownUseCase(flags.useCase)
\* fatal was called for a failed check of the configuration.
ConfigRejected ==
    fatalLog # <<>> /\ fatalLog[1] \in {errTotalGroupsZero, errInvalidGroupsFmt,
                                         "invalid format specifier", "unknown use case",
                                         "unknown format"}

\* C5: in a run of main, nothing is written to the sink and nothing is
\* serialized before the group, format and use-case checks have all passed,
\* and once a check has failed the process has exited through fatal with
\* nothing written.
C5_NoOutputBeforeValidation ==
    entry = "main" =>
        /\ Wrote => (ConfigValid /\ pc \notin {"init", "main", "validateFormat", "setup", "getConfig"})
        /\ ConfigRejected => (exit = "fatal" /\ ~Wrote)
        /\ (~ConfigValid /\ exit # "running") => ~Wrote

\* main has rejected a group id not below the number of groups, for the
\* format that has a preamble.
C5_Witness ==
    /\ entry = "main" /\ ConfigRejected /\ exit = "fatal"
    /\ flags.totalGroups >= 1 /\ flags.groupID >= flags.totalGroups
    /\ flags.format = formatTimescaleDB /\ KnownUseCase(flags.useCase)

\* C6: once Serialize has returned an error, fatal has been called with it,
\* and from then on no step calls Simulator.Next or Serialize again, whether
\* fatal exits or returns.
C6_SerializeErrorAborts ==
    /\ [](serErr => (fatalLog # <<>> /\ fatalLog[Len(fatalLog)] = "serialize"))
    /\ [][serErr => (simPos' = simPos /\ serialized' = serialized /\ serErr')]_vars

\* Serialize failed under a fatal that returns, with ticks left to simulate,
\* and runSimulator has returned.
C6_Witness ==
    /\ serErr /\ fatalHook = "returns" /\ exit = "call returned"
    /\ ~SimFinished(simPos, flags.ticks)
    /\ Len(serialized) >= 2

\* runSimulator has returned to its caller.
RsReturned == pc \in {"deferFlush", "deferStop", "deferClose"} \/ exit = "call returned"

\* C7 as stated: at every Next call and when runSimulator returns, the Point
\* buffer is the empty Point.
C7_BufferEmptyAtNextAndReturn ==
    (Running /\ pc \in {"loop", "next"}) \/ RsReturned => point = NewPoint

\* C7, amended: at every evaluation of the loop condition and every Next
\* call, and when runSimulator returns because the simulator has finished,
\* the Point buffer is the empty Point; when it returns because Serialize
\* failed, the buffer still holds the record that failed.
C7_BufferEmptyAtNextAndLoopEnd ==
    /\ (pc \in {"loop", "next"} \/ (RsReturned /\ ~serErr)) => point = NewPoint
    /\ (RsReturned /\ serErr) => point = serialized[Len(serialized)]

\* The loop is back at its condition after an own record, a skipped tick and
\* another group's record.
C7_Witness ==
    /\ pc = "loop" /\ simPos = 3 /\ point = NewPoint
    /\ flags.totalGroups = 2 /\ flags.groupID = 0
    /\ SimProduces(seed, 0) /\ ~SimProduces(seed, 1) /\ SimProduces(seed, 2)
    /\ Len(serialized) = 1

\* C8: the Points passed to Serialize so far are, in order, the first ones
\* of the produced records whose index (from 0) is congruent to groupID
\* modulo totalGroups; when the loop has ended without a Serialize error
\* they are all of them.
C8_EmissionOrder ==
    flags.totalGroups >= 1 =>
        LET want == EveryNth(Produced(seed), flags.groupID, flags.totalGroups)
        IN /\ pc \notin {"init"} =>
                /\ Len(serialized) <= Len(want)
                /\ serialized = SubSeq(want, 1, Len(serialized))
           /\ (RsReturned /\ ~serErr) => serialized = want

\* The run of group 1 of 2 has ended over a stream with a skipped tick
\* before the record it serialized.
C8_Witness ==
    /\ RsReturned /\ ~serErr
    /\ flags.totalGroups = 2 /\ flags.groupID = 1 /\ flags.ticks = 3
    /\ ~SimProduces(seed, 1)
    /\ Len(serialized) = 1

\* The encodings of the Points passed to Serialize, in order.
EncodedAll == [i \in 1..Len(serialized) |-> Encode(serializer, serialized[i])]

\* C9 as stated: when the process has exited by main returning or by the
\* listener's os.Exit, the writer has been flushed: nothing is left in its
\* buffer.
C9_FlushedOnReturnAndInterrupt ==
    exit \in {"returned", "interrupt"} => out.buf = <<>>

\* C9, amended: when the process has exited by main returning, the writer
\* has been flushed and every serialized record has reached standard output.
C9_FlushedOnReturn ==
    exit = "returned" =>
        /\ out.buf = <<>>
        /\ RecordsOf(out.sink) = EncodedAll

\* main has returned, with profiling on, after writing a header and records.
C9_Witness ==
    /\ exit = "returned" /\ lpc # "off"
    /\ Len(serialized) >= 2 /\ flags.format = formatTimescaleDB
    /\ out.buf = <<>>


\* -------------------------------------------------- the query generators
\* NewTimescaleDBDevopsHighCPU(hosts) called for each generator; the data
\* generator is not running.
InitQuery ==
    /\ gens \in [1..NumGens -> [hosts : HostChoices]]
    /\ pool = {}
    /\ allocated = 0
    /\ query = [q \in 1..MaxQueries |-> EmptyQuery]
    /\ holder = [q \in 1..MaxQueries |-> 0]
    /\ owner = [q \in 1..MaxQueries |-> 0]
    /\ lastCall = NoCall
    /\ entry = "none"
    /\ fatalHook = "Fatalf"
    /\ flags = [format |-> formatTimescaleDB, useCase |-> useCaseDevops, seed |-> 0,
                groupID |-> 0, totalGroups |-> 1, profileFile |-> FALSE, ticks |-> 0]
    /\ pc = "none"
    /\ FreshProcess(0, "unset")
    /\ runs = <<>>
    /\ campGroups = 0

\* NewTimescaleDBQuery(): the objects a call may return: one lying in the
\* package's pool, or a new one.
Acquirable == pool \cup (IF allocated < MaxQueries THEN {allocated + 1} ELSE {})

\* Mutant: Dispatch hands the object out and leaves it in the pool.
DispatchKeepsPooled(d, scaleVar) ==
    \E q \in Acquirable :
        /\ pool' = pool \cup {q}
        /\ allocated' = IF q \in pool THEN allocated ELSE allocated + 1
        /\ query' = [query EXCEPT ![q] = HighCPUForHosts(query[q], scaleVar, gens[d].hosts)]
        /\ holder' = [holder EXCEPT ![q] = d]
        /\ owner' = [owner EXCEPT ![q] = IF @ = 0 THEN d ELSE @]
        /\ lastCall' = [gen |-> d, scaleVar |-> scaleVar, ret |-> q]
        /\ UNCHANGED <<gens, entry, fatalHook, flags, procVars, runs, campGroups>>

\* Mutant: Dispatch builds with the host count of the first generator.
DispatchSharedHosts(d, scaleVar) ==
    \E q \in Acquirable :
        /\ pool' = pool \ {q}
        /\ allocated' = IF q \in pool THEN allocated ELSE allocated + 1
        /\ query' = [query EXCEPT ![q] = HighCPUForHosts(query[q], scaleVar, gens[1].hosts)]
        /\ holder' = [holder EXCEPT ![q] = d]
        /\ owner' = [owner EXCEPT ![q] = IF @ = 0 THEN d ELSE @]
        /\ lastCall' = [gen |-> d, scaleVar |-> scaleVar, ret |-> q]
        /\ UNCHANGED <<gens, entry, fatalHook, flags, procVars, runs, campGroups>>

\* Dispatch on generator d, lines 23-27.
Dispatch(d, scaleVar) ==
    \E q \in Acquirable :
        /\ pool' = pool \ {q}
        /\ allocated' = IF q \in pool THEN allocated ELSE allocated + 1
        /\ query' = [query EXCEPT ![q] = HighCPUForHosts(query[q], scaleVar, gens[d].hosts)]
        /\ holder' = [holder EXCEPT ![q] = d]
        /\ owner' = [owner EXCEPT ![q] = IF @ = 0 THEN d ELSE @]
        /\ lastCall' = [gen |-> d, scaleVar |-> scaleVar, ret |-> q]
        /\ UNCHANGED <<gens, entry, fatalHook, flags, procVars, runs, campGroups>>

\* The caller is done with a Query and puts it back into the pool.
Release(q) ==
    /\ holder[q] # 0
    /\ holder' = [holder EXCEPT ![q] = 0]
    /\ pool' = pool \cup {q}
    /\ UNCHANGED <<gens, allocated, query, owner, lastCall, entry, fatalHook, flags, procVars,
                   runs, campGroups>>

NextQuery ==
    \/ \E d \in DOMAIN gens : \E scaleVar \in ScaleVars : Dispatch(d, scaleVar)
    \/ \E q \in 1..MaxQueries : Release(q)

SpecQuery == InitQuery /\ [][NextQuery]_vars

\* C10 as stated: a Query object that Dispatch on one generator acquired is
\* never acquired by Dispatch on another generator.
C10_PoolPerGenerator ==
    \A q \in 1..MaxQueries : holder[q] # 0 => holder[q] = owner[q]

\* C10, amended: the pool is one for all generators; an object that a
\* Dispatch handed out is not in the pool until its caller releases it, so
\* no Dispatch, on the same or on another generator, acquires it meanwhile.
C10_HandedOutNotPooled ==
    \A q \in 1..MaxQueries : holder[q] # 0 => q \notin pool

\* Two generators hold one Query each, one of them an object that the other
\* generator's Dispatch had acquired first and that was released since.
C10_Witness ==
    \E q1, q2 \in 1..MaxQueries :
        /\ q1 # q2 /\ holder[q1] # 0 /\ holder[q2] # 0 /\ holder[q1] # holder[q2]
        /\ owner[q1] # holder[q1]
        /\ q1 \notin pool /\ q2 \notin pool

\* ------------------------------------------------------ the header: claims
\* Everything written to the writer so far, flushed or not.
Written == out.sink \o out.buf
\* The text pieces of a header cut into lines at each "\n": done are the
\* lines ended, cur is what follows the last "\n".
RECURSIVE SplitLines(_, _, _)
SplitLines(toks, done, cur) ==
    IF toks = <<>> THEN [done |-> done, cur |-> cur]
    ELSE IF Head(toks).s = "\n"
         THEN SplitLines(Tail(toks), Append(done, cur), <<>>)
         ELSE SplitLines(Tail(toks), done, Append(cur, Head(toks).s))
LinesOf(toks) == SplitLines(toks, <<>>, <<>>)
\* A line is items separated by commas; its items.
CommaSeparated(line) ==
    /\ Len(line) % 2 = 1
    /\ \A i \in 1..Len(line) : (i % 2 = 0) => line[i] = ","
ItemsOf(line) == [i \in 1..((Len(line) + 1) \div 2) |-> line[2 * i - 1]]

\* C11: once getSerializer has returned the TimescaleDB serializer, the
\* header written is the line "tags" and the keys of MachineTagKeys in their
\* order, then one line per measurement of Fields(), each measurement once,
\* in strictly ascending byte order of the names, each line the name and the
\* measurement's field names in the order Fields() gives them, then one
\* empty line.
C11_HeaderLayout ==
    (entry = "main" /\ serializer = formatTimescaleDB) =>
        LET h == LinesOf(HeaderOf(Written))
            F == SimFields(flags.useCase)
            n == Len(h.done)
        IN /\ h.cur = <<>>
           /\ n = Cardinality(DOMAIN F) + 2
           /\ CommaSeparated(h.done[1])
           /\ ItemsOf(h.done[1]) = <<"tags">> \o MachineTagKeys
           /\ \A i \in 2..(n - 1) :
                /\ CommaSeparated(h.done[i])
                /\ h.done[i][1] \in DOMAIN F
                /\ ItemsOf(h.done[i]) = <<h.done[i][1]>> \o F[h.done[i][1]]
           /\ \A i \in 2..(n - 1) : \A j \in (i + 1)..(n - 1) :
                StringLess(h.done[i][1], h.done[j][1])
           /\ {h.done[i][1] : i \in 2..(n - 1)} = DOMAIN F
           /\ h.done[n] = <<>>

\* getSerializer has written the header of the devops use case, which has
\* several measurements.
C11_Witness ==
    /\ entry = "main" /\ serializer = formatTimescaleDB
    /\ flags.useCase = useCaseDevops
    /\ pc = "rs_entry"
    /\ Len(LinesOf(HeaderOf(Written)).done) = 6

\* ------------------------------------------------ the counter: claims
\* The number of records the simulator has produced in its first n Next calls.
ProducedCount(n) == Len(ProducedFrom(seed, flags.useCase, 0, n))
\* The main goroutine is inside runSimulator's loop.
InLoop == pc \in {"loop", "next", "skip", "emit", "reset"}

\* C12: an iteration whose Next call produced no record leaves currGroup as
\* it was and calls Serialize not at all; an iteration whose Next call
\* produced a record advances currGroup to (currGroup + 1) mod totalGroups,
\* once, at its end, owned or not; so at the loop condition currGroup is the
\* number of records produced so far modulo totalGroups, however many
\* skipped iterations lie between them.
C12_CounterAdvancesOnProducedOnly ==
    /\ []((flags.totalGroups >= 1 /\ InLoop) =>
            currGroup = (IF pc \in {"emit", "reset"}
                         THEN ProducedCount(simPos) - 1
                         ELSE ProducedCount(simPos)) % flags.totalGroups)
    /\ [][(pc \in {"next", "skip"} /\ flags.totalGroups >= 1) =>
            (currGroup' = currGroup /\ serialized' = serialized)]_vars
    /\ [][(pc = "emit" /\ flags.totalGroups >= 1) => currGroup' = currGroup]_vars
    /\ [][(pc = "reset" /\ pc' = "loop") =>
            currGroup' = (currGroup + 1) % flags.totalGroups]_vars
    /\ [][(InLoop /\ currGroup' # currGroup) => (pc = "reset" /\ pc' = "loop")]_vars

\* Two records were produced around a skipped iteration, with two groups:
\* the counter is back at 0, not at the number of iterations modulo 2.
C12_Witness ==
    /\ pc = "loop" /\ simPos = 3 /\ flags.totalGroups = 2
    /\ SimProduces(seed, 0) /\ ~SimProduces(seed, 1) /\ SimProduces(seed, 2)
    /\ currGroup = 0

\* The number of "tags" markers in what was written.
TagMarkers == Len(SelectSeq(Written, LAMBDA t : t.kind = "text" /\ t.s = "tags"))

\* C13: in a run of main nothing is written before getSerializer; once it
\* has returned, which it has before runSimulator starts and before the
\* first Serialize call, the TimescaleDB format has exactly one header in
\* the output, ahead of every record, and the cassandra, influx and mongo
\* formats have no header text at all.
C13_PreambleOnceBeforeRecords ==
    entry = "main" =>
        /\ (InLoop \/ pc = "rs_entry" \/ serialized # <<>>) => serializer # "unset"
        /\ serializer = "unset" => Written = <<>>
        /\ serializer = formatTimescaleDB =>
             /\ TagMarkers = 1
             /\ Head(Written) = Text("tags")
             /\ Written = HeaderOf(Written) \o RecordsOf(Written)
        /\ serializer \in {formatCassandra, formatInflux, formatMongo} =>
             HeaderOf(Written) = <<>>

\* A TimescaleDB run has serialized records after its header.
C13_Witness ==
    /\ entry = "main" /\ serializer = formatTimescaleDB
    /\ Len(serialized) >= 2 /\ Len(RecordsOf(Written)) >= 2
    /\ TagMarkers = 1

\* --------------------------------------------- the profile file: claims
\* C14: the stop routine is called at most once in a process run, and the
\* main goroutine and the listener goroutine never both write the heap
\* profile to the profile file, nor both close it.
C14_StopAtMostOnce ==
    /\ Len(prof.stops) <= 1
    /\ ~({"main", "listener"} \subseteq Range(prof.writes))
    /\ ~({"main", "listener"} \subseteq Range(prof.closes))

\* ------------------------------------------------ group sizes: claims
\* ceil((n - g) / t), and 0 when g >= n.
GroupSize(n, g, t) == IF g >= n THEN 0 ELSE (n - g + t - 1) \div t
\* The number of Serialize calls of a finished run.
Calls(run) == Len(run.serialized)
RECURSIVE SumCalls(_)
SumCalls(g) == IF g < 0 THEN 0 ELSE Calls(GroupRun(g)) + SumCalls(g - 1)

\* C15: when every run of the campaign has returned (so no Serialize call
\* failed), the run of group g of T groups over a stream of N produced
\* records made ceil((N - g) / T) Serialize calls, 0 when g >= N, and the
\* single-group run made N; over the same stream the groups' counts sum to N
\* and differ pairwise by at most one.
C15_GroupSizes ==
    CampaignDone =>
        /\ Calls(SingleRun) = Len(Produced(SingleRun.seed))
        /\ \A g \in 0..(campGroups - 1) :
             Calls(GroupRun(g)) = GroupSize(Len(Produced(GroupRun(g).seed)), g, campGroups)
        /\ SameStream =>
             /\ SumCalls(campGroups - 1) = Len(Produced(SingleRun.seed))
             /\ \A g, h \in 0..(campGroups - 1) :
                  Calls(GroupRun(g)) - Calls(GroupRun(h)) \in {-1, 0, 1}

\* Three records over two groups: two for group 0, one for group 1.
C15_Witness ==
    /\ CampaignDone /\ SameStream /\ campGroups = 2
    /\ Len(Produced(SingleRun.seed)) = 3
    /\ Calls(GroupRun(0)) = 2 /\ Calls(GroupRun(1)) = 1

\* ------------------------------------------------------ Dispatch: claims
\* The Query objects handed out and not released since.
HandedOut == {q \in 1..MaxQueries : holder[q] # 0}
\* A step is a Dispatch call when an object is handed out in it.
DispatchStep == HandedOut' \ HandedOut # {}

\* C16: a Dispatch call on generator d with scaleVar takes exactly one Query,
\* one lying in the pool or a new one, fills that object and no other by
\* HighCPUForHosts with the call's scaleVar and the host count d was
\* constructed with, and returns it; the object returned is not in the pool
\* after the call; no step changes a generator's host count, and a Query
\* handed out by a generator carries that generator's host count.
C16_DispatchContract ==
    /\ [][DispatchStep =>
            LET d == lastCall'.gen
                r == lastCall'.ret
            IN /\ d \in DOMAIN gens
               /\ r \in Acquirable
               /\ HandedOut' = HandedOut \cup {r} /\ r \notin HandedOut
               /\ holder'[r] = d
               /\ lastCall'.scaleVar \in ScaleVars
               /\ query' = [query EXCEPT
                              ![r] = HighCPUForHosts(query[r], lastCall'.scaleVar, gens[d].hosts)]
               /\ pool' = pool \ {r}
               /\ allocated' = IF r \in pool THEN allocated ELSE allocated + 1]_vars
    /\ [][gens' = gens]_vars
    /\ [](\A q \in HandedOut : /\ q \notin pool
                               /\ query[q].hosts = gens[holder[q]].hosts)

\* Two generators constructed with different host counts each hold a Query
\* with their own count, one of the objects taken from the pool after the
\* other generator had used it.
C16_Witness ==
    /\ gens[1].hosts # gens[2].hosts
    /\ \E q1, q2 \in HandedOut :
         /\ holder[q1] = 1 /\ holder[q2] = 2
         /\ owner[q1] = 2
         /\ query[q1].hosts = gens[1].hosts /\ query[q2].hosts = gens[2].hosts

\* --------------------------------------------------- termination: claims
\* Finished() has been observed true at the loop condition.
SeenFinished == RsReturned \/ (pc = "loop" /\ SimFinished(simPos, flags.ticks))

\* C17: with the main goroutine scheduled and a simulator that is finished
\* after flags.ticks Next calls, runSimulator, once entered, eventually
\* returns or the process ends; Next is called only at line 196, which is
\* reached only after Finished() was false, once per such observation; once
\* Finished() was true there is no further Next or Serialize call; a return
\* without a Serialize error happens after exactly flags.ticks Next calls;
\* a simulator finished from the start gets no Next and no Serialize call.
C17_TerminatesWhenFinished ==
    /\ (pc = "rs_entry") ~> (RsReturned \/ exit # "running")
    /\ [](pc = "next" => ~SimFinished(simPos, flags.ticks))
    /\ [][simPos' # simPos => (pc = "next" /\ simPos' = simPos + 1)]_vars
    /\ [][(pc = "loop" /\ pc' = "next") => ~SimFinished(simPos, flags.ticks)]_vars
    /\ [][(pc = "next" /\ pc' # pc) =>
            (simPos' = simPos + 1 /\ pc' \in {"skip", "emit"})]_vars
    /\ [][SeenFinished => (simPos' = simPos /\ serialized' = serialized)]_vars
    /\ []((RsReturned /\ ~serErr) => simPos = flags.ticks)
    /\ [](flags.ticks = 0 => (simPos = 0 /\ serialized = <<>>))

\* runSimulator has returned to main after as many Next calls as the
\* simulator had ticks, some of them without a record.
C17_Witness ==
    /\ entry = "main" /\ pc = "deferFlush" /\ ~serErr
    /\ flags.ticks >= 3 /\ simPos = flags.ticks
    /\ Len(serialized) >= 1
    /\ \E t \in 0..(flags.ticks - 1) : ~SimProduces(seed, t)

\* ------------------------------------------- the counter's range: claims
\* C18: when totalGroups >= 1 and groupID < totalGroups, currGroup is within
\* 0..totalGroups-1 in every state; Serialize is called only at line 204, on
\* the record of the latest Next call, at most once per produced record; when
\* runSimulator is entered with totalGroups = 0, the counter never changes
\* and the update of line 212 for the first produced record is a run-time
\* panic: no second record is ever produced.
C18_CounterInRange ==
    /\ []((flags.totalGroups >= 1 /\ flags.groupID < flags.totalGroups) =>
            (0 <= currGroup /\ currGroup < flags.totalGroups))
    /\ [](Len(serialized) <= ProducedCount(simPos))
    /\ [][serialized' # serialized =>
            (/\ pc = "emit" /\ serialized' = Append(serialized, point)
             /\ (pc' # "emit" \/ exit' # "running"))]_vars
    /\ [](exit = "panic" =>
            (flags.totalGroups = 0 /\ pc = "reset" /\ ProducedCount(simPos) = 1))
    /\ []((flags.totalGroups = 0 /\ ProducedCount(simPos) >= 1) =>
            (pc \in {"emit", "reset"} /\ ProducedCount(simPos) = 1))
    /\ [][(flags.totalGroups = 0 /\ pc = "reset") =>
            (pc' = pc /\ exit' \in {exit, "panic"} /\ (point' # point => exit' = "panic"))]_vars
    /\ [][flags.totalGroups = 0 => currGroup' = currGroup]_vars

\* runSimulator was called with totalGroups = 0 and has panicked at the
\* first produced record, which came after a Next call without one.
C18_Witness ==
    /\ entry = "runSimulator" /\ flags.totalGroups = 0
    /\ exit = "panic" /\ simPos >= 2

====
